---- MODULE Spec2Model ----
(***************************************************************************)
(* The tool-calling agent of src/agent/agent.py: the module globals         *)
(* written by initialize_agent_with_config and reset_agent, the agent loop  *)
(* (call_model, call_tool, agent) and its two wrappers run_agent and        *)
(* run_agent_with_streaming.                                                *)
(*                                                                          *)
(* Calls are made one at a time (src/app.py consumes the stream of a turn  *)
(* to its end before it handles the next input).  Inside a turn the tool    *)
(* dispatches of one round are separate tasks that may complete in any      *)
(* order.                                                                   *)
(*                                                                          *)
(* A turn of the model puts one question to both wrappers side by side:     *)
(* from the same globals, with the same arguments and the same answers of   *)
(* the collaborators.  Both wrappers run the same entrypoint `agent`, so    *)
(* the turn has one agent loop; `ret` is what run_agent hands back for it   *)
(* and `events` is what run_agent_with_streaming yields for it.             *)
(*                                                                          *)
(* The collaborators (model provider, FDA API, graph database, PDF index)   *)
(* are an environment: each model invocation is answered by a failure or by *)
(* any response within the bounds, each backend a tool reaches answers or   *)
(* raises.                                                                  *)
(***************************************************************************)
EXTENDS Integers, Sequences, FiniteSets

\* ------------------------------------------------------------------ bounds
\* Tool invocation requests the model makes in one turn, over all rounds.
MaxToolCalls == 2
\* Runs of the body of initialize_agent_with_config in a behaviour: each one
\* constructs objects with a new identity.
MaxInits == 2

\* ------------------------------------------------------------ text values
\* A string built by the code is kept as the literal prefix the code writes
\* and the part that is interpolated; k tells model contents of one turn apart.
Text(prefix, body, k) == [prefix |-> prefix, body |-> body, k |-> k]

NoText == Text("", "", 0)

NOT_INITIALIZED_MSG ==
    Text("", "Error: Agent not initialized. Please provide all configuration parameters.", 0)

\* The literal beginnings of the strings that report a failure.
ErrorPrefixes ==
    { "Error running agent: ", "Error retrieving FDA data: ",
      "Error querying Neo4j: ", "Error searching PDF: ", "Error: " }

ErrorBodies ==
    { "Error: Agent not initialized. Please provide all configuration parameters.",
      "Error: Neo4j tool not initialized",
      "Error: QA chain not initialized",
      "Error: PDF tool not initialized. Please check the initialization logs.",
      "Error: PDF vector store not initialized. The PDF file may not have been loaded successfully during initialization." }

\* The text starts with "Error".
HasErrorIndicator(t) == t.prefix \in ErrorPrefixes \/ (t.prefix = "" /\ t.body \in ErrorBodies)

\* ------------------------------------------------------------ environment
FDA == "fda_adverse_events_tool"
NEO4J == "neo4j_query_tool"
PDF == "pdf_search_tool"
UNKNOWN == "unknown_tool"

\* The names a model response may ask for: the three bound tools, and a
\* name that is in no registry (the provider's output is not validated).
RequestableNames == {FDA, NEO4J, PDF, UNKNOWN}

\* All sequences over S of length n.
SeqsOfLen(S, n) == [1..n -> S]

\* A response of the provider: a failure of the invocation, or a message
\* with a (possibly empty) list of requested tool names.
ModelFailure == [fail |-> TRUE, calls |-> <<>>]
FinalResponse == [fail |-> FALSE, calls |-> <<>>]
ToolfulResponses(n) == { [fail |-> FALSE, calls |-> c] : c \in SeqsOfLen(RequestableNames, n) }

\* The responses the provider may give when `budget` more tool requests fit
\* in the turn.
ModelResponses(budget) ==
    {ModelFailure, FinalResponse} \cup UNION { ToolfulResponses(n) : n \in 1..budget }

\* ---------------------------------------------------------- configuration
\* A configuration parameter: 0 stands for None or "", 1 and 2 for two
\* different non-empty strings.
Params == {"openai_api_key", "neo4j_uri", "neo4j_username", "neo4j_password"}

Config(v) == [p \in Params |-> v]

FullConfigs == { Config(1), Config(2) }

\* The argument lists of a turn: the full configurations, the first of them
\* with one parameter missing, and no configuration at all.
ArgLists ==
    FullConfigs \cup { Config(0) } \cup { [Config(1) EXCEPT ![p] = 0] : p \in Params }

\* What the constructors and connections of one initialization do: PDFTool()
\* or ChatOpenAI() may raise, building the vector store or connecting to the
\* graph database may fail (both failures are caught and printed); a failed
\* connection may or may not have made the driver object before it failed.
InitOutcome(pdfRaises, storeOk, driverMade, neo4jOk, modelRaises) ==
    [pdf_ctor_raises |-> pdfRaises, store_ok |-> storeOk, driver_made |-> driverMade,
     neo4j_ok |-> neo4jOk, model_ctor_raises |-> modelRaises]

InitOutcomes ==
    { InitOutcome(TRUE, FALSE, FALSE, FALSE, FALSE) } \cup
    { InitOutcome(FALSE, s, d, d /\ n, m) :
         s \in BOOLEAN, d \in BOOLEAN, n \in BOOLEAN, m \in BOOLEAN }

\* No initialization body ran in the call.
NoInit ==
    [ran |-> FALSE, out |-> InitOutcome(FALSE, FALSE, FALSE, FALSE, FALSE), after_reset |-> FALSE]

\* The body ran with outcome out; after_reset: the call before was reset_agent.
InitRan(out, afterReset) == [ran |-> TRUE, out |-> out, after_reset |-> afterReset]

\* ---------------------------------------------------------------- objects
\* Every object carries the identity `id` it got when it was constructed;
\* id 0 is None (for tools_by_name: the empty dict).
NoNeo4jTool == [id |-> 0, uri |-> 0, username |-> 0, password |-> 0, driver |-> FALSE, chain |-> FALSE]
NoPDFTool == [id |-> 0, api_key |-> 0, vector_store |-> FALSE]
NoModel == [id |-> 0, api_key |-> 0]
EmptyRegistry == [id |-> 0, names |-> {}]

\* Neo4jTool.__init__: reads the connection parameters from the environment.
Neo4jTool(id, environ) ==
    [id |-> id, uri |-> environ["neo4j_uri"], username |-> environ["neo4j_username"],
     password |-> environ["neo4j_password"], driver |-> FALSE, chain |-> FALSE]

\* Neo4jTool.connect followed by initialize_qa_chain: the driver is set as
\* soon as GraphDatabase.driver returned, graph and chain only when the
\* database is reachable and the chain could be built.
Neo4jConnect(t, driverMade, ok) == [t EXCEPT !.driver = driverMade, !.chain = driverMade /\ ok]

\* What reset_agent did about the graph connection: the identity of the
\* Neo4jTool whose close() it called (0 for none), and whether close() found
\* a driver and closed it.
NoClose == [called |-> 0, driver_closed |-> FALSE]

\* Neo4jTool.close: "if self.driver: self.driver.close()".
Neo4jClose(t) == [called |-> t.id, driver_closed |-> t.driver]

\* PDFTool.__init__: embeddings and llm from the environment's key, no index.
PDFTool(id, environ) == [id |-> id, api_key |-> environ["openai_api_key"], vector_store |-> FALSE]

\* PDFTool.create_vector_store, called inside the try of the initialization.
CreateVectorStore(t, ok) == [t EXCEPT !.vector_store = ok]

ChatOpenAI(id, key) == [id |-> id, api_key |-> key]

ToolList == <<FDA, NEO4J, PDF>>

\* {tool.name: tool for tool in tools}, a new dict object.
BuildRegistry(id, ts) == [id |-> id, names |-> { ts[i] : i \in 1..Len(ts) }]

\* ------------------------------------------------------- module globals
VARIABLES neo4j_tool, pdf_tool, model, tools, tools_by_name, initialized, nextId

globalVars == <<neo4j_tool, pdf_tool, model, tools, tools_by_name, initialized>>

\* The six module globals as one value.
Globals ==
    [neo4j_tool |-> neo4j_tool, pdf_tool |-> pdf_tool, model |-> model, tools |-> tools,
     tools_by_name |-> tools_by_name, initialized |-> initialized]

InitialGlobals ==
    [neo4j_tool |-> NoNeo4jTool, pdf_tool |-> NoPDFTool, model |-> NoModel, tools |-> <<>>,
     tools_by_name |-> EmptyRegistry, initialized |-> FALSE]

SetGlobals(g) ==
    /\ neo4j_tool' = g.neo4j_tool
    /\ pdf_tool' = g.pdf_tool
    /\ model' = g.model
    /\ tools' = g.tools
    /\ tools_by_name' = g.tools_by_name
    /\ initialized' = g.initialized

\* "if neo4j_tool: neo4j_tool.close()" of reset_agent.
ResetAgentCloses(g) == IF g.neo4j_tool.id # 0 THEN Neo4jClose(g.neo4j_tool) ELSE NoClose

\* Mutant of ResetAgent: the model client is left as it is.
ResetAgentKeepsModel(g) ==
    [neo4j_tool |-> NoNeo4jTool, pdf_tool |-> NoPDFTool, model |-> g.model, tools |-> <<>>,
     tools_by_name |-> EmptyRegistry, initialized |-> FALSE]

\* Mutant of ResetAgent: the flag _initialized is left as it is.
ResetAgentKeepsFlag(g) ==
    [neo4j_tool |-> NoNeo4jTool, pdf_tool |-> NoPDFTool, model |-> NoModel, tools |-> <<>>,
     tools_by_name |-> EmptyRegistry, initialized |-> g.initialized]

\* reset_agent: every global back to its empty value.
ResetAgent(g) == InitialGlobals

\* Mutant of AlreadyInitialized: the guard is never taken.
NeverAlreadyInitialized(g) == FALSE

\* The assignments of reset_agent, one after the other: the globals after the
\* n-th of them (the first comes with the close() call before it).
ResetAssignments == 6

ResetStep(g, n) ==
    CASE n = 1 -> [g EXCEPT !.neo4j_tool = NoNeo4jTool]
      [] n = 2 -> [g EXCEPT !.pdf_tool = NoPDFTool]
      [] n = 3 -> [g EXCEPT !.model = NoModel]
      [] n = 4 -> [g EXCEPT !.tools = <<>>]
      [] n = 5 -> [g EXCEPT !.tools_by_name = EmptyRegistry]
      [] OTHER -> [g EXCEPT !.initialized = FALSE]

\* The guard of initialize_agent_with_config: "Only initialize once".
AlreadyInitialized(g) == g.initialized

\* Mutant of InitializeAgentWithConfig: a vector store that cannot be built
\* ends the initialization with its exception.
InitializeAgentWithConfigStoreRaises(g, cfg, out, id) ==
    IF AlreadyInitialized(g) THEN [g |-> g, ran |-> FALSE, raised |-> ""]
    ELSE
      LET environ == cfg
          g1 == [g EXCEPT !.neo4j_tool = Neo4jTool(id, environ)]
          g2 == [g1 EXCEPT !.pdf_tool = CreateVectorStore(PDFTool(id, environ), out.store_ok)]
          g3 == [g2 EXCEPT !.neo4j_tool = Neo4jConnect(g2.neo4j_tool, out.driver_made, out.neo4j_ok)]
          g4 == [g3 EXCEPT !.model = ChatOpenAI(id, cfg["openai_api_key"])]
          g5 == [g4 EXCEPT !.tools = ToolList]
          g6 == [g5 EXCEPT !.tools_by_name = BuildRegistry(id, g5.tools)]
          g7 == [g6 EXCEPT !.initialized = TRUE]
      IN  IF out.pdf_ctor_raises THEN [g |-> g1, ran |-> TRUE, raised |-> "PDFTool() failed"]
          ELSE IF ~out.store_ok THEN [g |-> g2, ran |-> TRUE, raised |-> "PDF file not found"]
          ELSE IF out.model_ctor_raises THEN [g |-> g3, ran |-> TRUE, raised |-> "ChatOpenAI() failed"]
          ELSE [g |-> g7, ran |-> TRUE, raised |-> ""]

\* Mutant of InitializeAgentWithConfig: the flag is set before the model
\* client is made.
InitializeAgentWithConfigFlagFirst(g, cfg, out, id) ==
    IF AlreadyInitialized(g) THEN [g |-> g, ran |-> FALSE, raised |-> ""]
    ELSE
      LET environ == cfg
          g1 == [g EXCEPT !.neo4j_tool = Neo4jTool(id, environ)]
          g2 == [g1 EXCEPT !.pdf_tool = CreateVectorStore(PDFTool(id, environ), out.store_ok)]
          g3 == [g2 EXCEPT !.neo4j_tool = Neo4jConnect(g2.neo4j_tool, out.driver_made, out.neo4j_ok),
                           !.initialized = TRUE]
          g4 == [g3 EXCEPT !.model = ChatOpenAI(id, cfg["openai_api_key"])]
          g5 == [g4 EXCEPT !.tools = ToolList]
          g6 == [g5 EXCEPT !.tools_by_name = BuildRegistry(id, g5.tools)]
      IN  IF out.pdf_ctor_raises THEN [g |-> g1, ran |-> TRUE, raised |-> "PDFTool() failed"]
          ELSE IF out.model_ctor_raises THEN [g |-> g3, ran |-> TRUE, raised |-> "ChatOpenAI() failed"]
          ELSE [g |-> g6, ran |-> TRUE, raised |-> ""]

\* initialize_agent_with_config(cfg) from globals g, with `id` the identity of
\* the objects it constructs: the globals it leaves, whether its body ran
\* and the exception it raised ("" for none).
InitializeAgentWithConfig(g, cfg, out, id) ==
    IF AlreadyInitialized(g) THEN [g |-> g, ran |-> FALSE, raised |-> ""]
    ELSE
      LET environ == cfg
          g1 == [g EXCEPT !.neo4j_tool = Neo4jTool(id, environ)]
          g2 == [g1 EXCEPT !.pdf_tool = CreateVectorStore(PDFTool(id, environ), out.store_ok)]
          g3 == [g2 EXCEPT !.neo4j_tool = Neo4jConnect(g2.neo4j_tool, out.driver_made, out.neo4j_ok)]
          g4 == [g3 EXCEPT !.model = ChatOpenAI(id, cfg["openai_api_key"])]
          g5 == [g4 EXCEPT !.tools = ToolList]
          g6 == [g5 EXCEPT !.tools_by_name = BuildRegistry(id, g5.tools)]
          g7 == [g6 EXCEPT !.initialized = TRUE]
      IN  IF out.pdf_ctor_raises THEN [g |-> g1, ran |-> TRUE, raised |-> "PDFTool() failed"]
          ELSE IF out.model_ctor_raises THEN [g |-> g3, ran |-> TRUE, raised |-> "ChatOpenAI() failed"]
          ELSE [g |-> g7, ran |-> TRUE, raised |-> ""]

\* ---------------------------------------------------------------- messages
\* The call id the provider gives to the i-th request of its k-th response of
\* a turn: opaque, and unique within the turn.
CallId(k, i) == k * (MaxToolCalls + 1) + i

HumanMessage(q) ==
    [type |-> "human", k |-> 0, content |-> Text("", q, 0),
     tool_calls |-> <<>>, tool_call_id |-> 0]

\* The message the provider returns to the k-th invocation of a turn, asking
\* for the tools named in `calls`.
AIMessage(k, calls) ==
    [type |-> "ai", k |-> k, content |-> Text("", "model content", k),
     tool_calls |-> [i \in 1..Len(calls) |-> [id |-> CallId(k, i), name |-> calls[i]]],
     tool_call_id |-> 0]

NoMessage ==
    [type |-> "none", k |-> 0, content |-> NoText, tool_calls |-> <<>>, tool_call_id |-> 0]

\* Mutant of ToolMessage: the call id is not passed on.
ToolMessageWithoutCallId(observation, tool_call) ==
    [type |-> "tool", k |-> 0, content |-> observation, tool_calls |-> <<>>, tool_call_id |-> 0]

\* ToolMessage(content=observation, tool_call_id=tool_call["id"])
ToolMessage(observation, tool_call) ==
    [type |-> "tool", k |-> 0, content |-> observation,
     tool_calls |-> <<>>, tool_call_id |-> tool_call.id]

\* Mutant of AddMessages: the new messages are put in front.
AddMessagesInFront(left, right) == right \o left

\* add_messages(left, right): the messages carry distinct ids, so the merge
\* by id appends.
AddMessages(left, right) == left \o right

\* ------------------------------------------------------------------- tools
\* What a tool function does: it returns a string, or raises.
Returned(text) == [raised |-> "", caught |-> "", text |-> text]
Raised(e) == [raised |-> e, caught |-> "", text |-> NoText]
\* The function caught exception e in its except clause and returned text.
Caught(e, text) == [raised |-> "", caught |-> e, text |-> text]

BACKEND_FAILURE == "backend failure"

\* Mutant of FdaAdverseEventsTool: no try/except around get_adverse_events.
FdaAdverseEventsToolUnguarded(g, fails) ==
    IF fails THEN Raised(BACKEND_FAILURE) ELSE Returned(Text("", "adverse events json", 0))

\* fda_adverse_events_tool: get_adverse_events inside try/except.
FdaAdverseEventsTool(g, fails) ==
    IF fails THEN Caught(BACKEND_FAILURE, Text("Error retrieving FDA data: ", BACKEND_FAILURE, 0))
    ELSE Returned(Text("", "adverse events json", 0))

\* Neo4jTool.ask_question: no chain, or chain.invoke inside try/except.
AskQuestion(t, fails) ==
    IF ~t.chain THEN Returned(Text("", "Error: QA chain not initialized", 0))
    ELSE IF fails THEN Caught(BACKEND_FAILURE, Text("Error: ", BACKEND_FAILURE, 0))
    ELSE Returned(Text("", "graph answer", 0))

\* neo4j_query_tool: str(neo4j_tool.ask_question(question)) inside try/except.
Neo4jQueryTool(g, fails) ==
    IF g.neo4j_tool.id = 0 THEN Returned(Text("", "Error: Neo4j tool not initialized", 0))
    ELSE LET result == AskQuestion(g.neo4j_tool, fails)
         IN  IF result.raised # ""
             THEN Caught(result.raised, Text("Error querying Neo4j: ", result.raised, 0))
             ELSE result

\* pdf_search_tool: PDFTool.search_text inside try/except, after the checks
\* of the tool instance and of its vector store.
PdfSearchTool(g, fails) ==
    IF g.pdf_tool.id = 0
    THEN Returned(Text("", "Error: PDF tool not initialized. Please check the initialization logs.", 0))
    ELSE IF ~g.pdf_tool.vector_store
    THEN Returned(Text("", "Error: PDF vector store not initialized. The PDF file may not have been loaded successfully during initialization.", 0))
    ELSE IF fails THEN Caught(BACKEND_FAILURE, Text("Error searching PDF: ", BACKEND_FAILURE, 0))
    ELSE Returned(Text("", "documents and answer json", 0))

\* tool.invoke(args) of the registered tool of that name.
ToolInvoke(name, g, fails) ==
    CASE name = FDA -> FdaAdverseEventsTool(g, fails)
      [] name = NEO4J -> Neo4jQueryTool(g, fails)
      [] OTHER -> PdfSearchTool(g, fails)

\* A task's future: pending, done with a message, or failed with an exception;
\* `caught` is the exception the tool function caught on the way ("" for none).
Pending == [state |-> "pending", message |-> NoMessage, error |-> "", caught |-> ""]
Done(m, caught) == [state |-> "done", message |-> m, error |-> "", caught |-> caught]
Failed(e) == [state |-> "failed", message |-> NoMessage, error |-> e, caught |-> ""]

\* Mutant of CallToolTask: a name that is no key is answered by an error text.
CallToolTaskAnswersUnknown(tool_call, g, fails) ==
    IF g.tools_by_name.names = {}
    THEN Failed("Tools not initialized. Call initialize_agent_with_config() first.")
    ELSE IF tool_call.name \notin g.tools_by_name.names
    THEN Done(ToolMessage(Text("Error: ", "unknown tool", 0), tool_call), "")
    ELSE LET observation == ToolInvoke(tool_call.name, g, fails)
         IN  IF observation.raised # "" THEN Failed(observation.raised)
             ELSE Done(ToolMessage(observation.text, tool_call), observation.caught)

\* call_tool(tool_call): the lookup in tools_by_name, the tool, the ToolMessage.
CallToolTask(tool_call, g, fails) ==
    IF g.tools_by_name.names = {}
    THEN Failed("Tools not initialized. Call initialize_agent_with_config() first.")
    ELSE IF tool_call.name \notin g.tools_by_name.names
    THEN Failed("KeyError")
    ELSE LET observation == ToolInvoke(tool_call.name, g, fails)
         IN  IF observation.raised # "" THEN Failed(observation.raised)
             ELSE Done(ToolMessage(observation.text, tool_call), observation.caught)

\* Mutant of CallModelTask: the model client is one the task keeps for itself,
\* not the global.
CallModelTaskKeepsClient(resp, k, g) ==
    IF resp.fail THEN Failed("model invocation failed")
    ELSE Done(AIMessage(k, resp.calls), "")

\* Mutant of CallModelTask: a failed invocation is passed over and an empty
\* message is returned in its place.
CallModelTaskSwallowsFailure(resp, k, g) ==
    IF g.model.id = 0
    THEN Failed("Model not initialized. Call initialize_agent_with_config() first.")
    ELSE IF resp.fail THEN Done(NoMessage, "")
    ELSE Done(AIMessage(k, resp.calls), "")

\* call_model(messages) when the provider's answer is `resp`.
CallModelTask(resp, k, g) ==
    IF g.model.id = 0
    THEN Failed("Model not initialized. Call initialize_agent_with_config() first.")
    ELSE IF resp.fail THEN Failed("model invocation failed")
    ELSE Done(AIMessage(k, resp.calls), "")

\* Mutant of LoopBreaks: the loop also ends with the second response.
LoopBreaksAfterTwoRounds(llm_response) == llm_response.tool_calls = <<>> \/ llm_response.k >= 2

\* Mutant of LoopBreaks: the loop goes on after a response without requests.
LoopNeverBreaks(llm_response) == FALSE

\* Mutant of LoopBreaks: the loop also ends on a response with one request.
LoopBreaksOnOneRequest(llm_response) == Len(llm_response.tool_calls) <= 1

\* The test of the agent loop: "if not llm_response.tool_calls: break".
LoopBreaks(llm_response) == llm_response.tool_calls = <<>>

\* ------------------------------------------------------------ step events
Event(task_name, content, step_type, is_final) ==
    [task_name |-> task_name, content |-> content, step_type |-> step_type, is_final |-> is_final]

ErrorEvent(content) == Event("error", content, "error", TRUE)

\* f"Error running agent: {str(e)}"
ErrorRunningAgent(e) == Text("Error running agent: ", e, 0)

\* The content of the event of a model round without tool requests.
FinalAnswerContent(message) == message.content

\* Mutant of ModelStepEvent: every model round is classified as the final answer.
ModelStepEventAlwaysFinal(message) ==
    Event("call_model", FinalAnswerContent(message), "final_answer", TRUE)

\* The classification of a call_model step.
ModelStepEvent(message) ==
    IF Len(message.tool_calls) > 0
    THEN Event("call_model", Text("Thinking and deciding which tools to use...", "tool calls", message.k),
               "tool_decision", FALSE)
    ELSE Event("call_model", FinalAnswerContent(message), "final_answer", TRUE)

\* Mutant of StreamStep: the steps of call_tool are passed over as well.
StreamStepSkipsToolSteps(task_name, message) ==
    IF task_name = "call_model" THEN << ModelStepEvent(message) >> ELSE <<>>

\* Mutant of StreamStep: the step of the entrypoint is not passed over.
StreamStepKeepsAgentStep(task_name, message) ==
    IF task_name = "call_model" THEN << ModelStepEvent(message) >>
    ELSE IF task_name = "call_tool"
    THEN << Event(task_name, Text("Executing tool... Result: ", message.content.body, message.tool_call_id),
                  "tool_execution", FALSE) >>
    ELSE << Event(task_name, NoText, "model_call", FALSE) >>

\* The events run_agent_with_streaming yields for one item (task_name,
\* message) of a step of agent.stream.
StreamStep(task_name, message) ==
    IF task_name = "agent" THEN <<>>
    ELSE IF task_name = "call_model" THEN << ModelStepEvent(message) >>
    ELSE IF task_name = "call_tool"
    THEN << Event(task_name, Text("Executing tool... Result: ", message.content.body, message.tool_call_id),
                  "tool_execution", FALSE) >>
    ELSE << Event(task_name, NoText, "model_call", FALSE) >>

\* Mutant of AllConfigured: the password is not looked at.
AllConfiguredButPassword(args) == \A p \in Params \ {"neo4j_password"} : args[p] # 0

\* all([openai_api_key, neo4j_uri, neo4j_username, neo4j_password])
AllConfigured(args) == \A p \in Params : args[p] # 0

\* Mutant of RunAgentResult: str(result) in place of result.content.
RunAgentResultWholeMessage(result) == Text("content=", result.content.body, result.k)

\* What run_agent returns for the response the agent loop returned.
RunAgentResult(result) == result.content

\* What a call hands back to its caller: a value, or an exception.
ReturnValue(text) == [kind |-> "return", text |-> text]
RaisedToCaller(e) == [kind |-> "raise", text |-> Text("", e, 0)]
NoReturn == [kind |-> "none", text |-> NoText]

\* run_agent without configuration: the literal it returns.
RunAgentNotInitialized == ReturnValue(NOT_INITIALIZED_MSG)

\* run_agent_with_streaming without configuration: the events it yields.
StreamNotInitialized == << ErrorEvent(NOT_INITIALIZED_MSG) >>

\* Mutant of RunAgentExcept: the exception is raised again.
RunAgentExceptReraises(e) == [kind |-> "raise", text |-> Text("", e, 0)]

\* "except Exception as e" of run_agent.
RunAgentExcept(e) == ReturnValue(ErrorRunningAgent(e))

\* "except Exception as e" of run_agent_with_streaming: the events it yields.
StreamExcept(e) == << ErrorEvent(ErrorRunningAgent(e)) >>

\* ------------------------------------------------------------ the calls
VARIABLES
    mode,          \* the call made last: "turn", "init", "reset" ("none" at the start)
    args,          \* the configuration arguments of the call, until the agent loop starts
    pc,            \* "idle", "invoke", "call_model", "call_tool", "return", "done"
    messages,      \* the agent loop's history
    llm_response,  \* the agent loop's latest response
    futures,       \* the tool tasks of the round
    events,        \* what run_agent_with_streaming has yielded
    ret,           \* what the call has handed back (for a turn: run_agent)
    failure,       \* the exception the except clause of the wrappers caught ("" for none)
    responses,     \* every response the provider gave in the turn
    nModel,        \* model invocations of the turn
    nBatches,      \* tool batches of the turn collected in full
    initInfo,      \* whether the call ran the body of the initialization, and how it
                   \* went, until the agent loop starts
    closed,        \* what the call, if it is reset_agent, did about the graph connection
    resetting,     \* the assignments made so far by a reset_agent that runs while a
                   \* turn is in flight (0: there is none)
    previousLen    \* the length of the history the call before this turn left, known
                   \* until the first model invocation of the turn

VARIABLES
    other          \* a second caller of run_agent or run_agent_with_streaming that runs
                   \* beside the calls above: its position in the initialization (pc),
                   \* the identity its constructors gave (id), and whether the agent
                   \* loop of the first caller was running when it assigned the
                   \* model client (in_turn)

VARIABLES
    fda_pc,        \* get_adverse_events: "none" (not called), "called", "returned"
    drug_name,     \* its argument
    response,      \* what response.json() gave: a dict that may have the key "results"
    useful_data    \* what it returned

fdaVars == <<fda_pc, drug_name, response, useful_data>>

VARIABLES
    app_pc,          \* the script of the chat page: "none" (not open), "idle" (waiting
                     \* for input), "streaming" (in the loop over the stream), "final"
                     \* (the is_final event was taken)
    config_complete, \* the four values of the sidebar are filled in
    chat_messages,   \* st.session_state.messages
    steps_history,   \* st.session_state.steps_history
    steps,           \* the local list of the events taken from the stream
    final_answer     \* the local final_answer

appVars == <<app_pc, config_complete, chat_messages, steps_history, steps, final_answer>>

\* What runs beside the calls of the agent.
besideVars == <<other, fdaVars, appVars>>

loopVars == <<messages, llm_response, futures, responses, nModel, nBatches>>

callVars == <<mode, args, initInfo, closed, resetting, besideVars>>

\* The arguments once they are read no more.
NoArgs == Config(-1)

vars ==
    <<neo4j_tool, pdf_tool, model, tools, tools_by_name, initialized, nextId,
      mode, args, pc, messages, llm_response, futures, events, ret, failure,
      responses, nModel, nBatches, initInfo, closed, resetting, previousLen,
      besideVars>>

\* No second caller.
NoOther == [pc |-> 0, id |-> 0, in_turn |-> FALSE]

\* The module after import, no call made.
InitAgent ==
    /\ neo4j_tool = NoNeo4jTool
    /\ pdf_tool = NoPDFTool
    /\ model = NoModel
    /\ tools = <<>>
    /\ tools_by_name = EmptyRegistry
    /\ initialized = FALSE
    /\ nextId = 1
    /\ mode = "none"
    /\ args = Config(0)
    /\ pc = "idle"
    /\ messages = <<>>
    /\ llm_response = NoMessage
    /\ futures = <<>>
    /\ events = <<>>
    /\ ret = NoReturn
    /\ failure = ""
    /\ responses = <<>>
    /\ nModel = 0
    /\ nBatches = 0
    /\ initInfo = NoInit
    /\ closed = NoClose
    /\ resetting = 0
    /\ previousLen = 0
    /\ other = NoOther

\* get_adverse_events is not called.
FdaNotCalled ==
    /\ fda_pc = "none"
    /\ drug_name = <<>>
    /\ response = [results |-> <<>>]
    /\ useful_data = <<>>

\* No steps stored: the empty dict.
NoStepsHistory == [k \in {} |-> <<>>]

\* The chat page is not open.
AppNotRunning ==
    /\ app_pc = "none"
    /\ config_complete = FALSE
    /\ chat_messages = <<>>
    /\ steps_history = NoStepsHistory
    /\ steps = <<>>
    /\ final_answer = NoText

Init == InitAgent /\ FdaNotCalled /\ AppNotRunning

\* The bookkeeping of every call of a public function: it is made when no
\* call is running.
BeginCall(m, a) ==
    /\ pc \in {"idle", "done"}
    /\ resetting \in {0, ResetAssignments}
    /\ resetting' = 0
    /\ mode' = m
    /\ args' = a
    /\ UNCHANGED besideVars

\* The loop state a call starts from.
FreshLoop ==
    /\ llm_response' = NoMessage
    /\ futures' = <<>>
    /\ responses' = <<>>
    /\ nModel' = 0
    /\ nBatches' = 0

\* The turn ends with exception e caught by the except clauses of the wrappers;
\* evs is what the stream has yielded so far.
Fails(e, evs) ==
    /\ failure' = e
    /\ pc' = "done"
    /\ ret' = RunAgentExcept(e)
    /\ events' = evs \o StreamExcept(e)

\* reset_agent()
ResetAgentCall ==
    /\ BeginCall("reset", Config(0))
    /\ closed' = ResetAgentCloses(Globals)
    /\ SetGlobals(ResetAgent(Globals))
    /\ pc' = "done"
    /\ ret' = ReturnValue(NoText)
    /\ events' = <<>>
    /\ failure' = ""
    /\ initInfo' = NoInit
    /\ messages' = <<>>
    /\ previousLen' = 0
    /\ FreshLoop
    /\ UNCHANGED nextId

\* The body of the initialization runs: it takes the next identity.
TakesIdentity(r) ==
    /\ r.ran => nextId <= MaxInits
    /\ nextId' = IF r.ran THEN nextId + 1 ELSE nextId

\* initialize_agent_with_config(cfg), called directly.
InitializeCall(cfg, out) ==
    /\ BeginCall("init", cfg)
    /\ closed' = NoClose
    /\ LET r == InitializeAgentWithConfig(Globals, cfg, out, nextId)
       IN  /\ TakesIdentity(r)
           /\ SetGlobals(r.g)
           /\ initInfo' = IF r.ran THEN InitRan(out, mode = "reset") ELSE NoInit
           /\ ret' = IF r.raised # "" THEN RaisedToCaller(r.raised) ELSE ReturnValue(NoText)
    /\ pc' = "done"
    /\ events' = <<>>
    /\ failure' = ""
    /\ messages' = <<>>
    /\ previousLen' = 0
    /\ FreshLoop

\* The first branch of run_agent and of run_agent_with_streaming: a full
\* configuration while not initialized.
NeedsInitialization(a, isInitialized) == AllConfigured(a) /\ ~isInitialized

\* The second branch: "elif not _initialized".
ConfigurationRequired(a, isInitialized) == ~NeedsInitialization(a, isInitialized) /\ ~isInitialized

\* The question of a turn.
question == "question"

\* Mutant of SavedState: the history of the invocation before is kept.
SavedStateKeepsHistory(history) == history

\* What an invocation of the entrypoint is given of the history the invocation
\* before it left: the entrypoint is made with "@entrypoint()", without a
\* checkpointer, so nothing.
SavedState(history) == <<>>

\* run_agent(question, a) and run_agent_with_streaming(question, a), up to the
\* user message: the initialization, or the answer that it is missing.
StartTurn(a, out) ==
    /\ BeginCall("turn", a)
    /\ closed' = NoClose
    /\ FreshLoop
    /\ IF NeedsInitialization(a, initialized)
       THEN LET r == InitializeAgentWithConfig(Globals, a, out, nextId)
            IN  /\ TakesIdentity(r)
                /\ SetGlobals(r.g)
                /\ initInfo' = IF r.ran THEN InitRan(out, mode = "reset") ELSE NoInit
                /\ IF r.raised # ""
                   THEN Fails(r.raised, <<>>)
                   ELSE /\ pc' = "invoke"
                        /\ ret' = NoReturn /\ events' = <<>> /\ failure' = ""
       ELSE /\ UNCHANGED <<neo4j_tool, pdf_tool, model, tools, tools_by_name, initialized, nextId>>
            /\ initInfo' = NoInit
            /\ failure' = ""
            /\ IF ConfigurationRequired(a, initialized)
               THEN /\ pc' = "done"
                    /\ ret' = RunAgentNotInitialized
                    /\ events' = StreamNotInitialized
               ELSE /\ pc' = "invoke"
                    /\ ret' = NoReturn /\ events' = <<>>
    /\ messages' = SavedState(messages)
    /\ previousLen' = Len(messages)

\* agent.invoke([user_message]) and agent.stream([user_message]): the agent
\* loop starts from what the entrypoint has saved, which is nothing, and the
\* user message; the configuration arguments are not read again.
InvokeAgent ==
    /\ pc = "invoke"
    /\ pc' = "call_model"
    /\ messages' = messages \o << HumanMessage(question) >>
    /\ args' = NoArgs
    /\ initInfo' = NoInit
    /\ UNCHANGED <<neo4j_tool, pdf_tool, model, tools, tools_by_name, initialized, nextId>>
    /\ UNCHANGED <<mode, closed, resetting, previousLen, llm_response, futures, events, ret, failure, responses, nModel, nBatches>>
    /\ UNCHANGED besideVars

\* The tool invocation requests of the responses in rs.
RECURSIVE Requested(_)
Requested(rs) == IF rs = <<>> THEN 0 ELSE Len(Head(rs).tool_calls) + Requested(Tail(rs))

\* Mutant of GlobalsAfterTask: a task empties the registry.
GlobalsAfterTaskWithoutRegistry(g) == [g EXCEPT !.tools_by_name = EmptyRegistry]

\* The globals after a task of the agent loop ran from globals g: call_model,
\* call_tool and the tool functions read the globals and assign none of them.
GlobalsAfterTask(g) == g

\* One invocation of call_model by the agent loop, answered by resp, with the
\* event the stream yields for it.
CallModel(resp) ==
    /\ pc = "call_model"
    /\ LET k == nModel + 1
           fut == CallModelTask(resp, k, Globals)
       IN  /\ nModel' = k
           /\ IF fut.state = "failed"
              THEN /\ Fails(fut.error, events)
                   /\ UNCHANGED <<llm_response, responses, futures>>
              ELSE /\ llm_response' = fut.message
                   /\ responses' = Append(responses, fut.message)
                   /\ events' = events \o StreamStep("call_model", fut.message)
                   /\ futures' = [i \in 1..Len(fut.message.tool_calls) |-> Pending]
                   /\ pc' = IF LoopBreaks(fut.message) THEN "return" ELSE "call_tool"
                   /\ UNCHANGED <<ret, failure>>
    /\ SetGlobals(GlobalsAfterTask(Globals))
    /\ previousLen' = 0
    /\ UNCHANGED <<nextId, callVars, messages, nBatches>>

\* The task call_tool of the i-th request of the round completes; `fails`
\* tells whether the backend raises if the tool reaches it.
CallTool(i, fails) ==
    /\ pc = "call_tool"
    /\ i \in DOMAIN futures
    /\ futures[i].state = "pending"
    /\ LET fut == CallToolTask(llm_response.tool_calls[i], Globals, fails)
       IN  /\ futures' = [futures EXCEPT ![i] = fut]
           /\ events' = IF fut.state = "done" THEN events \o StreamStep("call_tool", fut.message)
                        ELSE events
    /\ SetGlobals(GlobalsAfterTask(Globals))
    /\ UNCHANGED <<nextId, callVars, previousLen, pc, messages, llm_response, ret, failure, responses, nModel, nBatches>>

\* [fut.result() for fut in tool_result_futures] with every task done, then
\* add_messages(messages, [llm_response, *tool_results]).
CollectResults ==
    /\ pc = "call_tool"
    /\ \A i \in DOMAIN futures : futures[i].state = "done"
    /\ messages' = AddMessages(messages,
                       <<llm_response>> \o [i \in DOMAIN futures |-> futures[i].message])
    /\ nBatches' = nBatches + 1
    /\ pc' = "call_model"
    /\ UNCHANGED <<neo4j_tool, pdf_tool, model, tools, tools_by_name, initialized, nextId>>
    /\ UNCHANGED <<callVars, previousLen, llm_response, futures, events, ret, failure, responses, nModel>>

\* fut.result() raises: the first task in request order that failed, once the
\* tasks before it are done, ends the loop with its exception.
ToolTaskRaises ==
    /\ pc = "call_tool"
    /\ \E i \in DOMAIN futures :
          /\ futures[i].state = "failed"
          /\ \A j \in 1..(i - 1) : futures[j].state = "done"
          /\ Fails(futures[i].error, events)
    /\ UNCHANGED <<neo4j_tool, pdf_tool, model, tools, tools_by_name, initialized, nextId>>
    /\ UNCHANGED <<callVars, previousLen, loopVars>>

\* "return llm_response" of the agent loop: run_agent returns its content, the
\* stream passes over the step of the entrypoint and ends.
AgentReturns ==
    /\ pc = "return"
    /\ pc' = "done"
    /\ ret' = ReturnValue(RunAgentResult(llm_response))
    /\ events' = events \o StreamStep("agent", llm_response)
    /\ UNCHANGED <<neo4j_tool, pdf_tool, model, tools, tools_by_name, initialized, nextId>>
    /\ UNCHANGED <<callVars, previousLen, loopVars, failure>>

\* The outcomes an initialization made by this call can have.
OutcomesFor(willRun) == IF willRun THEN InitOutcomes ELSE {NoInit.out}

Next ==
    \/ ResetAgentCall
    \/ \E cfg \in FullConfigs : \E out \in OutcomesFor(~initialized) : InitializeCall(cfg, out)
    \/ \E a \in ArgLists :
          \E out \in OutcomesFor(NeedsInitialization(a, initialized)) : StartTurn(a, out)
    \/ InvokeAgent
    \/ \E resp \in ModelResponses(MaxToolCalls - Requested(responses)) : CallModel(resp)
    \/ \E i \in 1..MaxToolCalls : \E fails \in BOOLEAN : CallTool(i, fails)
    \/ CollectResults
    \/ ToolTaskRaises
    \/ AgentReturns

Spec == Init /\ [][Next]_vars

\* ------------------------------------------- reset during a turn
\* reset_agent called from another session of the application while a turn is
\* past its gate: its next assignment. A reset that has started goes on after
\* the turn has ended.
ConcurrentResetStep ==
    /\ mode = "turn"
    /\ \/ pc \in {"invoke", "call_model", "call_tool", "return"} /\ resetting < ResetAssignments
       \/ pc = "done" /\ resetting \in 1..(ResetAssignments - 1)
    /\ resetting' = resetting + 1
    /\ closed' = IF resetting = 0 THEN ResetAgentCloses(Globals) ELSE closed
    /\ SetGlobals(ResetStep(Globals, resetting + 1))
    /\ UNCHANGED <<nextId, mode, args, initInfo, previousLen, pc, ret, events, failure, loopVars>>
    /\ UNCHANGED besideVars

\* The arguments of the turns of the application: the configuration of its
\* sidebar, or none.
SessionArgLists == { Config(1), Config(0) }

\* The calls the application makes (turns and resets; it does not call
\* initialize_agent_with_config itself), and the reset of another session.
NextConcurrent ==
    \/ ResetAgentCall
    \/ \E a \in SessionArgLists :
          \E out \in OutcomesFor(NeedsInitialization(a, initialized)) : StartTurn(a, out)
    \/ InvokeAgent
    \/ \E resp \in ModelResponses(MaxToolCalls - Requested(responses)) : CallModel(resp)
    \/ \E i \in 1..MaxToolCalls : \E fails \in BOOLEAN : CallTool(i, fails)
    \/ CollectResults
    \/ ToolTaskRaises
    \/ AgentReturns
    \/ ConcurrentResetStep

SpecConcurrent == Init /\ [][NextConcurrent]_vars

\* ------------------------------------------- initialization by two callers
\* The statements of the body of initialize_agent_with_config that assign a
\* global or change the object a global refers to.
InitStatements == 8

\* Mutant of InitBodyStep: a statement of the body does nothing once the flag
\* is set.
InitBodyStepUnlessInitialized(g, n, cfg, out, id) ==
    IF g.initialized THEN g
    ELSE IF n = 1 THEN [g EXCEPT !.neo4j_tool = Neo4jTool(id, cfg)]
    ELSE IF n = 2 THEN [g EXCEPT !.pdf_tool = PDFTool(id, cfg)]
    ELSE IF n = 3 THEN [g EXCEPT !.pdf_tool = CreateVectorStore(g.pdf_tool, out.store_ok)]
    ELSE IF n = 4 THEN [g EXCEPT !.neo4j_tool = Neo4jConnect(g.neo4j_tool, out.driver_made, out.neo4j_ok)]
    ELSE IF n = 5 THEN [g EXCEPT !.model = ChatOpenAI(id, cfg["openai_api_key"])]
    ELSE IF n = 6 THEN [g EXCEPT !.tools = ToolList]
    ELSE IF n = 7 THEN [g EXCEPT !.tools_by_name = BuildRegistry(id, g.tools)]
    ELSE [g EXCEPT !.initialized = TRUE]

\* The globals after the n-th statement of the body of
\* initialize_agent_with_config ran from globals g: the statements read the
\* globals as they are when they run (the vector store is built in, and the
\* connection made by, the objects the globals refer to then).
InitBodyStep(g, n, cfg, out, id) ==
    IF n = 1 THEN [g EXCEPT !.neo4j_tool = Neo4jTool(id, cfg)]
    ELSE IF n = 2 THEN [g EXCEPT !.pdf_tool = PDFTool(id, cfg)]
    ELSE IF n = 3 THEN [g EXCEPT !.pdf_tool = CreateVectorStore(g.pdf_tool, out.store_ok)]
    ELSE IF n = 4 THEN [g EXCEPT !.neo4j_tool = Neo4jConnect(g.neo4j_tool, out.driver_made, out.neo4j_ok)]
    ELSE IF n = 5 THEN [g EXCEPT !.model = ChatOpenAI(id, cfg["openai_api_key"])]
    ELSE IF n = 6 THEN [g EXCEPT !.tools = ToolList]
    ELSE IF n = 7 THEN [g EXCEPT !.tools_by_name = BuildRegistry(id, g.tools)]
    ELSE [g EXCEPT !.initialized = TRUE]

\* The outcome of the constructors and connections of both callers: all of
\* them work.
OtherOutcome == InitOutcome(FALSE, TRUE, TRUE, TRUE, FALSE)

\* The outcomes of an initialization by the first caller.
TwoCallersOutcomesFor(willRun) == IF willRun THEN {OtherOutcome} ELSE {NoInit.out}

\* The second caller, with the full configuration, evaluates the gate of its
\* wrapper, "if all([...]) and not _initialized", and enters it.
OtherCallerGate ==
    /\ other.pc = 0
    /\ NeedsInitialization(Config(1), initialized)
    /\ other' = [other EXCEPT !.pc = 1]
    /\ UNCHANGED <<neo4j_tool, pdf_tool, model, tools, tools_by_name, initialized, nextId>>
    /\ UNCHANGED <<mode, args, initInfo, closed, resetting, previousLen, pc, ret, events, failure, loopVars>>
    /\ UNCHANGED <<fdaVars, appVars>>

\* The second caller evaluates "if _initialized: return" of
\* initialize_agent_with_config: it returns (pc -1), or it goes on to the body.
OtherCallerGuard ==
    /\ other.pc = 1
    /\ other' = [other EXCEPT !.pc = IF AlreadyInitialized(Globals) THEN -1 ELSE 2]
    /\ UNCHANGED <<neo4j_tool, pdf_tool, model, tools, tools_by_name, initialized, nextId>>
    /\ UNCHANGED <<mode, args, initInfo, closed, resetting, previousLen, pc, ret, events, failure, loopVars>>
    /\ UNCHANGED <<fdaVars, appVars>>

\* The second caller runs the next statement of the body; its constructors
\* give the identity it takes at the first of them (it runs the body once, so
\* this needs no bound).
OtherCallerStep ==
    /\ other.pc \in 2..(InitStatements + 1)
    /\ LET n == other.pc - 1
           id == IF n = 1 THEN nextId ELSE other.id
       IN  /\ SetGlobals(InitBodyStep(Globals, n, Config(1), OtherOutcome, id))
           /\ other' = [pc |-> other.pc + 1, id |-> id,
                         in_turn |-> IF n = 5 THEN pc \in {"call_model", "call_tool", "return"}
                                                 ELSE other.in_turn]
           /\ nextId' = IF n = 1 THEN nextId + 1 ELSE nextId
    /\ UNCHANGED <<mode, args, initInfo, closed, resetting, previousLen, pc, ret, events, failure, loopVars>>
    /\ UNCHANGED <<fdaVars, appVars>>

\* The turns of one caller with the full configuration and the
\* initialization of a second caller, interleaved.
NextTwoCallers ==
    \/ \E out \in TwoCallersOutcomesFor(NeedsInitialization(Config(1), initialized)) :
          StartTurn(Config(1), out)
    \/ InvokeAgent
    \/ \E resp \in ModelResponses(MaxToolCalls - Requested(responses)) : CallModel(resp)
    \/ \E i \in 1..MaxToolCalls : \E fails \in BOOLEAN : CallTool(i, fails)
    \/ CollectResults
    \/ ToolTaskRaises
    \/ AgentReturns
    \/ OtherCallerGate
    \/ OtherCallerGuard
    \/ OtherCallerStep

SpecTwoCallers == Init /\ [][NextTwoCallers]_vars

\* ------------------------------------------- get_adverse_events
\* A dict of the response is a record of its optional keys: <<>> for a key
\* that is missing, <<v>> for a key with value v. A product name is the
\* sequence of its characters; the other strings are strings.
MaxResults == 2
MaxDrugs == 2
MaxReactions == 1

\* d.get(key, default), for the value v of the key in d.
Get(v, default) == IF v = <<>> THEN default ELSE v[1]

\* The default of drug.get("medicinalproduct", "N/A").
NA == << "N", "/", "A" >>

\* The literal "TRAMADOL" of the filter.
TRAMADOL == << "T", "R", "A", "M", "A", "D", "O", "L" >>

\* Product names of the reports.
ApoTramadol == << "A", "p", "o", "-", "T", "r", "a", "m", "a", "d", "o", "l" >>
ASPIRIN == << "A", "S", "P", "I", "R", "I", "N" >>
ProductNames == { TRAMADOL, ApoTramadol, ASPIRIN }

\* str.upper(), character by character.
UpperChar(c) ==
    CASE c = "a" -> "A"
      [] c = "d" -> "D"
      [] c = "l" -> "L"
      [] c = "m" -> "M"
      [] c = "o" -> "O"
      [] c = "p" -> "P"
      [] c = "r" -> "R"
      [] OTHER -> c

Upper(name) == [i \in DOMAIN name |-> UpperChar(name[i])]

\* "needle in hay" of two strings.
Contains(needle, hay) ==
    \E i \in 0..(Len(hay) - Len(needle)) : SubSeq(hay, i + 1, i + Len(needle)) = needle

\* Mutant of NameHasTramadol: the name is compared as it is written.
NameHasTramadolAsWritten(name) == Contains(TRAMADOL, name)

\* if "TRAMADOL" in name.upper()
NameHasTramadol(name) == Contains(TRAMADOL, Upper(name))

\* The drug_names of one result.
DrugNames(result) ==
    IF result.patient # <<>> /\ result.patient[1].drug # <<>>
    THEN LET drugs == result.patient[1].drug[1]
             names == [i \in DOMAIN drugs |-> Get(drugs[i].medicinalproduct, NA)]
         IN  SelectSeq(names, NameHasTramadol)
    ELSE <<>>

\* The reactions of one result, as the code's loop reads them.
Reactions(result) ==
    IF result.patient # <<>> /\ result.patient[1].reaction # <<>>
    THEN result.patient[1].reaction[1]
    ELSE <<>>

\* Mutant of UsefulRecord: a missing date or id is left empty.
UsefulRecordWithoutSentinel(result) ==
    [receivedate |-> Get(result.receivedate, ""),
     safetyreportid |-> Get(result.safetyreportid, ""),
     drug_names |-> DrugNames(result),
     reactions |-> [i \in DOMAIN Reactions(result) |-> Get(Reactions(result)[i].reactionmeddrapt, "N/A")],
     outcomes |-> [i \in DOMAIN Reactions(result) |-> Get(Reactions(result)[i].reactionoutcome, "N/A")]]

\* The dict appended to useful_data for one result.
UsefulRecord(result) ==
    [receivedate |-> Get(result.receivedate, "N/A"),
     safetyreportid |-> Get(result.safetyreportid, "N/A"),
     drug_names |-> DrugNames(result),
     reactions |-> [i \in DOMAIN Reactions(result) |-> Get(Reactions(result)[i].reactionmeddrapt, "N/A")],
     outcomes |-> [i \in DOMAIN Reactions(result) |-> Get(Reactions(result)[i].reactionoutcome, "N/A")]]

\* get_adverse_events(name, limit) when the service answered with the dict
\* resp: name and limit go into the URL and are not read again.
GetAdverseEvents(name, resp) ==
    LET results == Get(resp.results, <<>>)
    IN  [i \in DOMAIN results |-> UsefulRecord(results[i])]

\* A key that is missing, or has one of the values vs.
Optional(vs) == { <<>> } \cup { <<v>> : v \in vs }

\* The sequences over S of length at most n.
SeqsUpTo(S, n) == UNION { SeqsOfLen(S, k) : k \in 0..n }

\* The dicts of the response.
Drugs == [medicinalproduct : Optional(ProductNames)]
ReactionDicts == [reactionmeddrapt : Optional({"Nausea"}), reactionoutcome : Optional({"1"})]
Patients == [drug : Optional(SeqsUpTo(Drugs, MaxDrugs)),
             reaction : Optional(SeqsUpTo(ReactionDicts, MaxReactions))]
Results == [receivedate : Optional({"20240101"}), safetyreportid : Optional({"id-1"}),
            patient : Optional(Patients)]

\* Results told apart by their ids, for the lists of more than one entry.
ListedResults ==
    { [receivedate |-> <<>>, safetyreportid |-> <<"id-1">>, patient |-> <<>>],
      [receivedate |-> <<"20240101">>, safetyreportid |-> <<"id-2">>,
       patient |-> << [drug |-> << << [medicinalproduct |-> <<ApoTramadol>>] >> >>, reaction |-> <<>>] >>] }

\* The answers of the service: without results (an error answer), with one
\* result of any shape, or with a list of the results that are told apart.
Responses ==
    { [results |-> <<>>] } \cup
    { [results |-> << <<r>> >>] : r \in Results } \cup
    { [results |-> <<rs>>] : rs \in SeqsUpTo(ListedResults, MaxResults) }

\* The drug names asked for.
QueriedDrugs == { TRAMADOL, ASPIRIN }

InitGetAdverseEvents ==
    /\ InitAgent
    /\ AppNotRunning
    /\ fda_pc = "called"
    /\ drug_name \in QueriedDrugs
    /\ response \in Responses
    /\ useful_data = <<>>

\* get_adverse_events(drug_name) runs to its return.
GetAdverseEventsCall ==
    /\ fda_pc = "called"
    /\ fda_pc' = "returned"
    /\ useful_data' = GetAdverseEvents(drug_name, response)
    /\ UNCHANGED <<drug_name, response, other, appVars>>
    /\ UNCHANGED <<neo4j_tool, pdf_tool, model, tools, tools_by_name, initialized, nextId>>
    /\ UNCHANGED <<mode, args, initInfo, closed, resetting, previousLen, pc, ret, events, failure, loopVars>>

NextGetAdverseEvents == GetAdverseEventsCall

SpecGetAdverseEvents == InitGetAdverseEvents /\ [][NextGetAdverseEvents]_vars

\* ------------------------------------------- the chat page (app.py)
\* The prompts of a session between two clearings, and the events of a
\* stream before its last.
MaxPrompts == 2
MaxSteps == 2

\* {"role": role, "content": content}
ChatMessage(role, content) == [role |-> role, content |-> content]

\* The prompts typed into the chat input.
Prompts == { Text("", "prompt", 0), Text("", "another prompt", 0) }

\* f"(cross mark) Sorry, I encountered an error: {str(e)}"
SorryMessage(e) == Text("Sorry, I encountered an error: ", e, 0)

\* The events run_agent_with_streaming yields before its last: tool
\* decisions and tool executions.
ProgressEvents ==
    { ModelStepEvent(AIMessage(1, <<FDA>>)),
      Event("call_tool", Text("Executing tool... Result: ", "adverse events json", 1),
            "tool_execution", FALSE) }

\* Its last event: the final answer, or the error of the turn.
LastEvents ==
    { ModelStepEvent(AIMessage(1, <<>>)),
      ErrorEvent(ErrorRunningAgent(BACKEND_FAILURE)) }

\* The order of the events of a stream: a tool execution follows a tool
\* decision or another execution, a model event comes first or follows an
\* execution; an error event comes anywhere.
MayFollow(ev, taken) ==
    IF ev.step_type = "error" THEN TRUE
    ELSE IF ev.task_name = "call_tool" THEN taken # <<>>
    ELSE IF taken = <<>> THEN TRUE ELSE taken[Len(taken)].task_name = "call_tool"

\* Mutant of MessageId: the length of the list.
MessageIdIsLength(msgs) == Len(msgs)

\* message_id = len(st.session_state.messages) - 1
MessageId(msgs) == Len(msgs) - 1

\* steps_history[key] = value
SetItem(d, key, value) == [k \in DOMAIN d \cup {key} |-> IF k = key THEN value ELSE d[k]]

\* The page is opened: the session state is made.
InitApp ==
    /\ InitAgent
    /\ FdaNotCalled
    /\ app_pc = "idle"
    /\ config_complete = FALSE
    /\ chat_messages = <<>>
    /\ steps_history = NoStepsHistory
    /\ steps = <<>>
    /\ final_answer = NoText

\* What the script runs of the chat page leave alone.
AppFrame ==
    /\ UNCHANGED <<neo4j_tool, pdf_tool, model, tools, tools_by_name, initialized, nextId>>
    /\ UNCHANGED <<mode, args, initInfo, closed, resetting, previousLen, pc, ret, events, failure, loopVars>>
    /\ UNCHANGED <<other, fdaVars>>

\* The sidebar: a value is filled in or emptied, and config_complete is
\* computed again.
EditConfiguration ==
    /\ app_pc = "idle"
    /\ config_complete' = ~config_complete
    /\ UNCHANGED <<app_pc, chat_messages, steps_history, steps, final_answer>>
    /\ AppFrame

\* The button "Clear Chat History".
ClearChatHistory ==
    /\ app_pc = "idle"
    /\ chat_messages' = <<>>
    /\ steps_history' = NoStepsHistory
    /\ UNCHANGED <<app_pc, config_complete, steps, final_answer>>
    /\ AppFrame

\* A prompt is submitted: the user message is appended and the loop over the
\* stream is entered.
SubmitPrompt(prompt) ==
    /\ app_pc = "idle"
    /\ config_complete
    /\ Len(chat_messages) < 2 * MaxPrompts
    /\ chat_messages' = Append(chat_messages, ChatMessage("user", prompt))
    /\ final_answer' = NoText
    /\ steps' = <<>>
    /\ app_pc' = "streaming"
    /\ UNCHANGED <<config_complete, steps_history>>
    /\ AppFrame

\* One pass of the loop for an event that is not final.
StreamYields(step_data) ==
    /\ app_pc = "streaming"
    /\ Len(steps) < MaxSteps
    /\ MayFollow(step_data, steps)
    /\ ~step_data.is_final
    /\ steps' = Append(steps, step_data)
    /\ UNCHANGED <<app_pc, config_complete, chat_messages, steps_history, final_answer>>
    /\ AppFrame

\* One pass of the loop for the event that is final.
StreamYieldsFinal(step_data) ==
    /\ app_pc = "streaming"
    /\ MayFollow(step_data, steps)
    /\ step_data.is_final
    /\ steps' = Append(steps, step_data)
    /\ final_answer' = step_data.content
    /\ app_pc' = "final"
    /\ UNCHANGED <<config_complete, chat_messages, steps_history>>
    /\ AppFrame

\* The stream is exhausted: the assistant message and the steps are stored.
StreamEnds ==
    /\ app_pc = "final"
    /\ LET appended == Append(chat_messages, ChatMessage("assistant", final_answer))
       IN  /\ chat_messages' = appended
           /\ steps_history' = SetItem(steps_history, MessageId(appended), steps)
    /\ app_pc' = "idle"
    /\ steps' = <<>>
    /\ final_answer' = NoText
    /\ UNCHANGED config_complete
    /\ AppFrame

\* An exception in the try block, from the stream or from the display of an
\* event: the except clause stores its message.
StreamRaises(e) ==
    /\ app_pc \in {"streaming", "final"}
    /\ chat_messages' = Append(chat_messages, ChatMessage("assistant", SorryMessage(e)))
    /\ app_pc' = "idle"
    /\ steps' = <<>>
    /\ final_answer' = NoText
    /\ UNCHANGED <<config_complete, steps_history>>
    /\ AppFrame

NextApp ==
    \/ EditConfiguration
    \/ ClearChatHistory
    \/ \E prompt \in Prompts : SubmitPrompt(prompt)
    \/ \E step_data \in ProgressEvents : StreamYields(step_data)
    \/ \E step_data \in LastEvents : StreamYieldsFinal(step_data)
    \/ StreamEnds
    \/ StreamRaises(BACKEND_FAILURE)

SpecApp == InitApp /\ [][NextApp]_vars

\* ================================================================ claims
Last(sq) == sq[Len(sq)]

\* The call ids requested by an assistant message.
RequestedIds(m) == { m.tool_calls[i].id : i \in DOMAIN m.tool_calls }

\* The assistant message at position p of the history is followed by exactly
\* as many tool results as it has requests, every requested call id is the
\* tool_call_id of exactly one of them, and what follows them is no tool result.
AnsweredAt(p) ==
    LET m == messages[p]
        n == Len(m.tool_calls)
    IN  /\ p + n <= Len(messages)
        /\ \A j \in 1..n : messages[p + j].type = "tool"
        /\ \A i \in 1..n :
              Cardinality({ j \in 1..n : messages[p + j].tool_call_id = m.tool_calls[i].id }) = 1
        /\ p + n + 1 <= Len(messages) => messages[p + n + 1].type # "tool"

\* The response r was appended to the history with its results.
AppendedWithResults(r) == \E p \in DOMAIN messages : messages[p] = r /\ AnsweredAt(p)

\* The agent loop has returned its response: the turn ended without exception.
ReturnedNormally == mode = "turn" /\ pc = "done" /\ failure = "" /\ nModel > 0

\* C1 (as amended): every assistant message of the history is followed by
\* exactly as many tool results as it carries requests, each requested call id
\* answered exactly once, and every tool result of the history answers a
\* request of the assistant message before it; the rounds in the history are
\* exactly the rounds whose dispatches all returned, and a round in which a
\* dispatch raised appends nothing and ends the turn with an error answer.
C1_ResultsMatchRequests ==
    /\ \A p \in DOMAIN messages : messages[p].type = "ai" => AnsweredAt(p)
    /\ \A q \in DOMAIN messages :
          messages[q].type = "tool" =>
             \E p \in 1..(q - 1) :
                /\ messages[p].type = "ai"
                /\ q <= p + Len(messages[p].tool_calls)
                /\ messages[q].tool_call_id \in RequestedIds(messages[p])
    /\ \A r \in DOMAIN responses :
          r <= nBatches <=> (responses[r].tool_calls # <<>> /\ AppendedWithResults(responses[r]))
    /\ pc = "call_tool" /\ (\A i \in DOMAIN futures : futures[i].state = "done")
          => ENABLED CollectResults
    /\ (pc = "done" /\ Len(responses) > nBatches /\ Last(responses).tool_calls # <<>>)
          => /\ \E i \in DOMAIN futures : futures[i].state = "failed" /\ failure = futures[i].error
             /\ ret = ReturnValue(ErrorRunningAgent(failure))
             /\ ~AppendedWithResults(Last(responses))

\* C1 witness: a round with two requests whose results are in the history.
C1_Witness ==
    /\ pc = "call_model"
    /\ \E p \in DOMAIN messages : Len(messages[p].tool_calls) = 2 /\ AnsweredAt(p)

\* C1 as stated: in every round whose response carries requests, the results
\* are appended after the response.
C1_Original ==
    pc = "done" =>
       \A r \in DOMAIN responses :
          responses[r].tool_calls # <<>> => AppendedWithResults(responses[r])

\* C2: the agent loop returns only on a response without tool requests, the
\* response it returns is the latest one, and run_agent's answer is the content
\* of that response and of no earlier one.
C2_ReturnsLatestToolFreeResponse ==
    /\ pc = "return" =>
          /\ responses # <<>>
          /\ llm_response = Last(responses)
          /\ llm_response.tool_calls = <<>>
    /\ ReturnedNormally =>
          /\ llm_response = Last(responses)
          /\ llm_response.tool_calls = <<>>
          /\ ret = ReturnValue(llm_response.content)
          /\ \A r \in 1..(Len(responses) - 1) : responses[r].content # ret.text

\* C2 witness: a turn that returned after a round of tools.
C2_Witness == ReturnedNormally /\ Len(responses) >= 2

\* C3: when the k-th response is the first one without tool requests and every
\* dispatch returns, the loop makes k model invocations and k-1 tool batches
\* and then returns: no invocation follows a response without requests.
C3_InvocationsAndBatches ==
    /\ \A r \in 1..(Len(responses) - 1) : responses[r].tool_calls # <<>>
    /\ (responses # <<>> /\ Last(responses).tool_calls = <<>>)
          => /\ pc \in {"return", "done"}
             /\ nModel = Len(responses)
             /\ nBatches = nModel - 1
             /\ pc = "return" => ENABLED AgentReturns
             /\ pc = "done" => ReturnedNormally

\* C3 witness: the third response is the first without requests.
C3_Witness == ReturnedNormally /\ nModel = 3 /\ nBatches = 2

\* C4: a dispatch whose tool function met an exception is done, not failed:
\* its result is a tool message whose text carries an error indicator; once
\* the round is collected the result is in the history and the loop is at its
\* next model invocation; a dispatch fails only for a name that is in no
\* registry, so no turn ends with the error of a tool's backend.
C4_FailingToolIsContained ==
    /\ \A i \in DOMAIN futures :
          /\ futures[i].caught # "" =>
                /\ futures[i].state = "done"
                /\ futures[i].message.type = "tool"
                /\ futures[i].message.tool_call_id = llm_response.tool_calls[i].id
                /\ HasErrorIndicator(futures[i].message.content)
          /\ futures[i].state = "failed" =>
                llm_response.tool_calls[i].name \notin tools_by_name.names
    /\ (pc = "call_model" /\ nBatches > 0) =>
          /\ Len(messages) > Len(futures)
          /\ \A i \in DOMAIN futures :
                messages[Len(messages) - Len(futures) + i] = futures[i].message
    /\ failure # BACKEND_FAILURE
    /\ ret.text.body # BACKEND_FAILURE

\* C4 witness: a round with a tool whose backend raised has been collected
\* and the loop is at its next model invocation.
C4_Witness ==
    /\ pc = "call_model"
    /\ nBatches > 0
    /\ \E i \in DOMAIN futures : futures[i].caught = BACKEND_FAILURE

IsFinal(e) == e.is_final

\* The contents of the events marked is_final, in the order of the stream.
FinalContents(evs) == [i \in DOMAIN SelectSeq(evs, IsFinal) |-> SelectSeq(evs, IsFinal)[i].content]

\* A turn has ended: run_agent has returned and the stream is exhausted.
TurnEnded == mode = "turn" /\ pc = "done"

\* C5: at the end of a turn the string run_agent returned is the content of
\* the one event marked is_final that run_agent_with_streaming yielded, when
\* the turn succeeded and when it ended in an error.
C5_StreamingEquivalence ==
    TurnEnded => (ret.kind = "return" /\ FinalContents(events) = << ret.text >>)

\* C5 witness: a turn that ended in an error after a round of tools.
C5_Witness == TurnEnded /\ failure # "" /\ nBatches > 0 /\ Len(events) >= 3

\* C9: run_agent hands back a string and never an exception, whatever the
\* initialization, the model and the tools do; when its except clause caught
\* a failure the string is "Error running agent: " followed by the failure,
\* and a constructor that raises in the initialization is such a failure.
C9_RunAgentNeverRaises ==
    mode = "turn" =>
       /\ ret.kind # "raise"
       /\ pc = "done" => ret.kind = "return"
       /\ failure # "" =>
             /\ pc = "done"
             /\ ret = ReturnValue(Text("Error running agent: ", failure, 0))
       /\ (initInfo.ran /\ (initInfo.out.pdf_ctor_raises \/ initInfo.out.model_ctor_raises))
             => (pc = "done" /\ failure # "")
       /\ (pc = "done" /\ \E i \in DOMAIN futures : futures[i].state = "failed") => failure # ""

\* C9 witness: a turn whose initialization raised.
C9_Witness == TurnEnded /\ initInfo.ran /\ initInfo.out.model_ctor_raises /\ ret.kind = "return"

\* C10: no event but the last of a stream is marked is_final; a stream
\* consumed to its end has a last event and that one is marked is_final: the
\* final_answer event of the response the loop returned, or the one error
\* event (task_name "error", step_type "error") with the failure description
\* or with the text that the configuration is missing.
C10_OneFinalEventLast ==
    /\ \A i \in 1..(Len(events) - 1) : ~events[i].is_final
    /\ TurnEnded =>
          /\ events # <<>>
          /\ Last(events).is_final
          /\ ReturnedNormally =>
                Last(events) = Event("call_model", llm_response.content, "final_answer", TRUE)
          /\ failure # "" =>
                Last(events) = Event("error", Text("Error running agent: ", failure, 0), "error", TRUE)
          /\ (failure = "" /\ nModel = 0) =>
                events = << Event("error", NOT_INITIALIZED_MSG, "error", TRUE) >>

\* C10 witness: a stream of a turn with a round of tools that ended with the
\* final answer.
C10_Witness == TurnEnded /\ Len(events) >= 3 /\ Last(events).step_type = "final_answer"

\* A step that makes a call of a public function.
CallStarts == pc \in {"idle", "done"} /\ mode' \in {"init", "turn", "reset"} /\ vars' # vars

\* C6: a call of initialize_agent_with_config, or a turn, made while the agent
\* is initialized leaves the tool instances, the model client, the tools list,
\* the registry and the flag as they are, whatever its arguments, and
\* constructs nothing.
C6_InitializedIsNoOp ==
    [][(CallStarts /\ initialized /\ mode' \in {"init", "turn"}) =>
          /\ UNCHANGED <<neo4j_tool, pdf_tool, model, tools, tools_by_name, initialized>>
          /\ UNCHANGED nextId
          /\ ~initInfo'.ran]_vars

\* C6 witness: initialize_agent_with_config has returned from a call with a
\* configuration other than the one the agent was initialized with.
C6_Witness ==
    /\ mode = "init" /\ pc = "done"
    /\ initialized /\ ~initInfo.ran
    /\ args["openai_api_key"] # model.api_key
    /\ args["neo4j_uri"] # neo4j_tool.uri

\* The arguments of the turn lack a configuration parameter.
IncompleteArgs == mode = "turn" /\ args # NoArgs /\ \E p \in Params : args[p] = 0

\* The answer of run_agent that the configuration is missing, with nothing
\* initialized, no model invocation and no tool dispatch.
ConfigurationRequiredAnswer ==
    /\ pc = "done"
    /\ ret = ReturnValue(NOT_INITIALIZED_MSG)
    /\ ~initInfo.ran
    /\ nModel = 0 /\ responses = <<>> /\ futures = <<>> /\ messages = <<>>

\* C7 (as amended): a turn whose arguments lack a configuration parameter,
\* made while the agent is not initialized, is answered by the literal text
\* that the configuration is missing, with no initialization, no model
\* invocation and no tool dispatch; made while the agent is initialized, the
\* turn runs with the configuration the agent has.
C7_ConfigurationRequired ==
    /\ (IncompleteArgs /\ ~initialized) => ConfigurationRequiredAnswer
    /\ (IncompleteArgs /\ initialized) => (pc = "invoke" /\ ~initInfo.ran /\ ret = NoReturn)

\* C7 witness: the answer to a turn without the graph password.
C7_Witness ==
    /\ IncompleteArgs /\ ~initialized /\ pc = "done"
    /\ args = [Config(1) EXCEPT !["neo4j_password"] = 0]

\* C7 as stated: every turn whose arguments lack a configuration parameter is
\* answered by the literal text.
C7_Original == IncompleteArgs => ConfigurationRequiredAnswer

\* C8: the first turn after reset_agent, given a full configuration, runs the
\* body of the initialization: the Neo4jTool is a new instance made from the
\* arguments of the call and, unless a constructor raises (the call then ends
\* with the error string and no turn runs), so are the PDFTool, the model
\* client and the registry; the turn that follows runs on these globals, and
\* every instance there ever was has an identity below the next new one.
C8_ReinitializesAfterReset ==
    /\ [](/\ neo4j_tool.id < nextId /\ pdf_tool.id < nextId
          /\ model.id < nextId /\ tools_by_name.id < nextId)
    /\ [][/\ (CallStarts /\ mode = "reset" /\ mode' = "turn" /\ \A p \in Params : args'[p] # 0) =>
                /\ initInfo'.ran
                /\ nextId' = nextId + 1
                /\ neo4j_tool'.id = nextId
                /\ neo4j_tool'.uri = args'["neo4j_uri"]
                /\ neo4j_tool'.username = args'["neo4j_username"]
                /\ neo4j_tool'.password = args'["neo4j_password"]
                /\ pc' \in {"invoke", "done"}
                /\ pc' = "done" => (~initialized' /\ failure' # "" /\ ret'.text.prefix = "Error running agent: ")
                /\ pc' = "invoke" =>
                      /\ initialized'
                      /\ pdf_tool'.id = nextId /\ pdf_tool'.api_key = args'["openai_api_key"]
                      /\ model'.id = nextId /\ model'.api_key = args'["openai_api_key"]
                      /\ tools_by_name'.id = nextId /\ tools_by_name'.names = {FDA, NEO4J, PDF}
                      /\ tools' = <<FDA, NEO4J, PDF>>
          /\ (mode = "turn" /\ pc \notin {"idle", "done"}) =>
                UNCHANGED <<neo4j_tool, pdf_tool, model, tools, tools_by_name, initialized, nextId>>
       ]_vars

\* C8 witness: a turn about to start on the instances the call constructed
\* after a reset, from a configuration other than the first.
C8_Witness ==
    /\ mode = "turn" /\ pc = "invoke"
    /\ initInfo.ran /\ initInfo.after_reset
    /\ neo4j_tool.id = 2 /\ model.id = 2 /\ tools_by_name.id = 2
    /\ model.api_key = 2

IsModelStep(e) == e.task_name = "call_model"

IsToolStep(e) == e.task_name = "call_tool"

\* The events of the model rounds, in the order of the stream.
ModelStepEvents(evs) == SelectSeq(evs, IsModelStep)

RECURSIVE ExpectedStepTypes(_)
ExpectedStepTypes(rs) ==
    IF rs = <<>> THEN <<>>
    ELSE (IF Head(rs).tool_calls = <<>> THEN << "final_answer" >>
          ELSE << "tool_decision" >> \o [i \in DOMAIN Head(rs).tool_calls |-> "tool_execution"])
         \o ExpectedStepTypes(Tail(rs))

StepTypes(evs) == [i \in DOMAIN evs |-> evs[i].step_type]

\* C12: the stream of a turn that returned normally is, in order, for every
\* round with requests one tool_decision event followed by one tool_execution
\* event for each request of that round, the events of a round being those of
\* the call ids of its response, and then one final_answer event.
C12_StreamOrder ==
    ReturnedNormally =>
       /\ StepTypes(events) = ExpectedStepTypes(responses)
       /\ \A i \in DOMAIN events :
             events[i].step_type = "tool_execution" =>
                \E j \in 1..(i - 1) :
                   /\ events[j].step_type = "tool_decision"
                   /\ \A l \in (j + 1)..i : events[l].step_type = "tool_execution"
                   /\ events[i].content.k \in RequestedIds(responses[events[j].content.k])

\* C12 witness: a turn with one round of one request.
C12_Witness ==
    /\ ReturnedNormally
    /\ Len(responses) = 2 /\ Len(responses[1].tool_calls) = 1
    /\ StepTypes(events) = << "tool_decision", "tool_execution", "final_answer" >>

\* C13: from whatever the globals are, reset_agent returns without an
\* exception and leaves neo4j_tool, pdf_tool and model None, tools and
\* tools_by_name empty and the flag False; it calls close() on the Neo4jTool
\* exactly when there is one, which closes the driver when that tool has one.
C13_ResetClearsEverything ==
    [][(CallStarts /\ mode' = "reset") =>
          /\ neo4j_tool' = NoNeo4jTool /\ pdf_tool' = NoPDFTool /\ model' = NoModel
          /\ tools' = <<>> /\ tools_by_name' = EmptyRegistry /\ ~initialized'
          /\ pc' = "done" /\ ret'.kind = "return"
          /\ closed'.called = neo4j_tool.id
          /\ closed'.driver_closed = (neo4j_tool.id # 0 /\ neo4j_tool.driver)
          /\ UNCHANGED nextId]_vars

\* C13 witness: a reset that called close() on a Neo4jTool without a driver
\* (the initialization raised before the connection, or no driver was made).
C13_Witness ==
    /\ mode = "reset" /\ pc = "done"
    /\ closed.called # 0 /\ ~closed.driver_closed
    /\ nextId = 2

\* C14: every response of a turn is the provider's answer to one model
\* invocation, and an invocation that got no answer is the last thing the turn
\* did: no invocation and no dispatch comes after it, run_agent returned
\* "Error running agent: " with the failure, and the stream ended with the
\* error event of the same text.
C14_ModelFailureEndsTurn ==
    mode = "turn" =>
       /\ \A r \in DOMAIN responses : responses[r].type = "ai" /\ responses[r].k = r
       /\ nModel \in {Len(responses), Len(responses) + 1}
       /\ nModel > Len(responses) =>
             /\ pc = "done"
             /\ failure = "model invocation failed"
             /\ ret = ReturnValue(Text("Error running agent: ", failure, 0))
             /\ Last(events) = Event("error", Text("Error running agent: ", failure, 0), "error", TRUE)
             /\ nBatches = Len(responses)
             /\ \A i \in DOMAIN futures : futures[i].state = "done"

\* C14 witness: the second model invocation of a turn failed.
C14_Witness == TurnEnded /\ nModel = 2 /\ Len(responses) = 1 /\ nBatches = 1

\* The sequence a is the beginning of the sequence b.
IsPrefix(a, b) == Len(a) <= Len(b) /\ \A i \in DOMAIN a : b[i] = a[i]

\* C15: a step of a turn leaves the messages of the history where and as they
\* are; the history grows only when a round is collected, and then by the
\* response of the round followed by the results of its dispatches in the
\* order of the requests of that response, whatever the order in which the
\* dispatches completed.
C15_AppendInRequestOrder ==
    [][(mode = "turn" /\ mode' = "turn" /\ pc \notin {"idle", "done", "invoke"}) =>
          /\ IsPrefix(messages, messages')
          /\ messages' # messages =>
                /\ pc = "call_tool" /\ pc' = "call_model"
                /\ Len(messages') = Len(messages) + 1 + Len(llm_response.tool_calls)
                /\ messages'[Len(messages) + 1] = llm_response
                /\ \A i \in DOMAIN llm_response.tool_calls :
                      /\ messages'[Len(messages) + 1 + i].type = "tool"
                      /\ messages'[Len(messages) + 1 + i].tool_call_id = llm_response.tool_calls[i].id
                      /\ messages'[Len(messages) + 1 + i] = futures[i].message]_vars

\* C15 witness: a collected round of two requests in which the dispatch of
\* the second request completed first (its event is the earlier one).
C15_Witness ==
    /\ mode = "turn" /\ pc = "call_model" /\ nBatches = 1
    /\ Len(llm_response.tool_calls) = 2
    /\ Len(events) = 3
    /\ events[2].content.k = llm_response.tool_calls[2].id
    /\ events[3].content.k = llm_response.tool_calls[1].id
    /\ messages[3].tool_call_id = llm_response.tool_calls[1].id
    /\ messages[4].tool_call_id = llm_response.tool_calls[2].id

\* The i-th request of the round asks for a name that is no key of the registry.
UnknownRequest(i) == llm_response.tool_calls[i].name \notin tools_by_name.names

\* C16: the dispatch of a request for a name that is no key of the registry
\* never gives a tool result: it is pending or has failed with the KeyError
\* of the lookup, no tool function ran for it, no event and no message of the
\* history carries its call id; a round with a failed dispatch is never
\* collected, no model invocation follows it, and the turn ends with the
\* error as its answer.
C16_UnknownToolFails ==
    (mode = "turn" /\ tools_by_name.names # {}) =>
       /\ \A i \in DOMAIN futures :
             UnknownRequest(i) =>
                /\ futures[i].state \in {"pending", "failed"}
                /\ futures[i].state = "failed" => futures[i].error = "KeyError"
                /\ futures[i].message = NoMessage /\ futures[i].caught = ""
                /\ \A j \in DOMAIN events :
                      IsToolStep(events[j]) => events[j].content.k # llm_response.tool_calls[i].id
                /\ \A p \in DOMAIN messages :
                      messages[p].tool_call_id # llm_response.tool_calls[i].id
       /\ (\E i \in DOMAIN futures : futures[i].state = "failed") =>
             /\ pc \in {"call_tool", "done"}
             /\ ~ENABLED CollectResults
             /\ nModel = Len(responses) /\ nBatches = Len(responses) - 1
             /\ pc = "done" =>
                   /\ failure = "KeyError"
                   /\ ret = ReturnValue(Text("Error running agent: ", "KeyError", 0))
                   /\ Last(events) = Event("error", Text("Error running agent: ", "KeyError", 0), "error", TRUE)
       /\ (pc = "call_tool" /\ \A i \in DOMAIN futures : futures[i].state # "pending") =>
             (ENABLED ToolTaskRaises <=> \E i \in DOMAIN futures : UnknownRequest(i))

\* C16 witness: a turn that ended on a round with a registered and an
\* unregistered name, after the tool of the registered name had run.
C16_Witness ==
    /\ TurnEnded /\ failure = "KeyError"
    /\ \E i, j \in DOMAIN futures :
          /\ UnknownRequest(i) /\ futures[i].state = "failed"
          /\ ~UnknownRequest(j) /\ futures[j].state = "done"

\* Every response the provider has given in the turn carries a request.
OnlyToolfulResponses == \A r \in DOMAIN responses : responses[r].tool_calls # <<>>

\* C17: as long as every response of the provider carries a request and
\* nothing has raised, the loop is at a model invocation or in a tool round,
\* whatever the number of rounds made: it has not returned, run_agent has
\* handed nothing back and the stream has yielded no is_final event; after a
\* collected round the next model invocation is enabled.
C17_NoRoundLimit ==
    (mode = "turn" /\ nModel > 0 /\ failure = "" /\ OnlyToolfulResponses) =>
       /\ pc \in {"call_model", "call_tool"}
       /\ ret = NoReturn
       /\ \A i \in DOMAIN events : ~events[i].is_final
       /\ nBatches \in {nModel - 1, nModel}
       /\ pc = "call_model" => ENABLED CallModel(FinalResponse)

\* C17 witness: the loop is at its next model invocation after as many rounds
\* as the bound on the requests of a turn lets the provider make.
C17_Witness ==
    /\ mode = "turn" /\ pc = "call_model" /\ failure = ""
    /\ nBatches = MaxToolCalls /\ nModel = MaxToolCalls
    /\ OnlyToolfulResponses

\* The dispatch that completes in this step, if the step is one.
Completes(i) == i \in DOMAIN futures /\ futures[i].state = "pending" /\ futures'[i].state # "pending"

\* C18: when reset_agent runs while a turn is in flight, the turn meets what
\* the reset has cleared so far: a model invocation made once model is None
\* raises and ends the turn with the error answer, a dispatch made once
\* tools_by_name is empty raises, and a dispatch of the graph or PDF tool
\* made once its instance is None gives an error text as the tool result;
\* without such a reset no turn ends with one of these errors.
C18_ResetDuringTurn ==
    /\ []((failure \in { "Model not initialized. Call initialize_agent_with_config() first.",
                         "Tools not initialized. Call initialize_agent_with_config() first." })
             => resetting > 0)
    /\ [](resetting = ResetAssignments => Globals = InitialGlobals)
    /\ [][/\ (mode = "turn" /\ pc = "call_model" /\ model.id = 0 /\ nModel' = nModel + 1) =>
                /\ pc' = "done"
                /\ responses' = responses
                /\ failure' = "Model not initialized. Call initialize_agent_with_config() first."
                /\ ret' = ReturnValue(Text("Error running agent: ", failure', 0))
                /\ Last(events') = Event("error", Text("Error running agent: ", failure', 0), "error", TRUE)
          /\ \A i \in 1..MaxToolCalls :
                (mode = "turn" /\ pc = "call_tool" /\ Completes(i)) =>
                   /\ tools_by_name.names = {} =>
                         /\ futures'[i].state = "failed"
                         /\ futures'[i].error = "Tools not initialized. Call initialize_agent_with_config() first."
                   /\ (tools_by_name.names # {} /\ llm_response.tool_calls[i].name = NEO4J
                          /\ neo4j_tool.id = 0) =>
                         /\ futures'[i].state = "done"
                         /\ futures'[i].message.content = Text("", "Error: Neo4j tool not initialized", 0)
                   /\ (tools_by_name.names # {} /\ llm_response.tool_calls[i].name = PDF
                          /\ pdf_tool.id = 0) =>
                         /\ futures'[i].state = "done"
                         /\ futures'[i].message.content =
                               Text("", "Error: PDF tool not initialized. Please check the initialization logs.", 0)
       ]_vars

\* C18 witness: a turn that had collected a round ended with the error of the
\* missing model, after a reset that started during the turn.
C18_Witness ==
    /\ TurnEnded /\ nBatches >= 1 /\ resetting > 0
    /\ failure = "Model not initialized. Call initialize_agent_with_config() first."

\* C19: a turn that starts while the agent is initialized, and every step of
\* it to its end, leaves model, neo4j_tool, pdf_tool, tools, tools_by_name
\* and the flag as they are, whether the turn ends with an answer or with an
\* error; the only steps that change one of them are reset_agent and the
\* body of initialize_agent_with_config.
C19_TurnLeavesConfiguration ==
    [][/\ (mode' = "turn" /\ initialized) =>
             UNCHANGED <<neo4j_tool, pdf_tool, model, tools, tools_by_name, initialized>>
       /\ <<neo4j_tool, pdf_tool, model, tools, tools_by_name, initialized>>'
             # <<neo4j_tool, pdf_tool, model, tools, tools_by_name, initialized>>
             => (CallStarts /\ (mode' = "reset" \/ initInfo'.ran))
      ]_vars

\* C19 witness: a turn of an initialized agent that made a tool round and then
\* ended with an error, with the configuration in place.
C19_Witness ==
    /\ TurnEnded /\ failure # "" /\ nBatches >= 1
    /\ initialized /\ model.id # 0 /\ neo4j_tool.id # 0 /\ pdf_tool.id # 0
    /\ tools = <<FDA, NEO4J, PDF>> /\ tools_by_name.names = {FDA, NEO4J, PDF}

IsHumanMessage(m) == m.type = "human"

IsAIMessage(m) == m.type = "ai"

\* C20: the history of a turn is the user message of the turn followed by
\* the rounds collected in this turn and nothing else: its first message is
\* the one user message it has, its assistant messages are the responses the
\* provider gave in this turn, in order, and its length is that of these
\* rounds; the first model invocation of a turn is given the user message
\* alone, whatever the history the turn before it left.
C20_TurnStartsFromUserMessage ==
    (mode = "turn" /\ pc \in {"call_model", "call_tool", "return"}) =>
       /\ messages[1] = HumanMessage(question)
       /\ Len(SelectSeq(messages, IsHumanMessage)) = 1
       /\ SelectSeq(messages, IsAIMessage) = SubSeq(responses, 1, nBatches)
       /\ Len(messages) = 1 + nBatches + Requested(SubSeq(responses, 1, nBatches))
       /\ nModel = 0 => messages = << HumanMessage(question) >>

\* C20 witness: a turn at its first model invocation, made after a turn that
\* left a history with a tool round.
C20_Witness ==
    /\ mode = "turn" /\ pc = "call_model" /\ nModel = 0
    /\ previousLen >= 3
    /\ messages = << HumanMessage(question) >>

\* C21: an initialization whose constructors return ends with the flag set,
\* whether or not the vector store was built and the graph database was
\* reached; in a turn of an agent without vector store, or without QA chain,
\* the dispatch of the PDF tool, or of the graph tool, is done with the error
\* text of the missing resource as its result, no backend having been called,
\* and a round whose dispatches are done is collected.
C21_DegradedInitialization ==
    /\ (initInfo.ran /\ ~initInfo.out.pdf_ctor_raises /\ ~initInfo.out.model_ctor_raises) =>
          /\ initialized
          /\ pdf_tool.vector_store = initInfo.out.store_ok
          /\ neo4j_tool.chain = (initInfo.out.driver_made /\ initInfo.out.neo4j_ok)
    /\ (mode = "turn" /\ initialized) =>
          \A i \in DOMAIN futures :
             /\ (llm_response.tool_calls[i].name = PDF /\ ~pdf_tool.vector_store
                    /\ futures[i].state # "pending") =>
                   /\ futures[i].state = "done" /\ futures[i].caught = ""
                   /\ futures[i].message.content.body =
                         "Error: PDF vector store not initialized. The PDF file may not have been loaded successfully during initialization."
             /\ (llm_response.tool_calls[i].name = NEO4J /\ ~neo4j_tool.chain
                    /\ futures[i].state # "pending") =>
                   /\ futures[i].state = "done" /\ futures[i].caught = ""
                   /\ futures[i].message.content.body = "Error: QA chain not initialized"
    /\ (mode = "turn" /\ pc = "call_tool" /\ \A i \in DOMAIN futures : futures[i].state = "done")
          => ENABLED CollectResults

\* C21 witness: a turn of an agent without vector store and without QA chain
\* is at its next model invocation after a round that asked for both tools.
C21_Witness ==
    /\ mode = "turn" /\ pc = "call_model" /\ nBatches = 1
    /\ initialized /\ ~pdf_tool.vector_store /\ ~neo4j_tool.chain
    /\ \E i, j \in DOMAIN futures :
          /\ llm_response.tool_calls[i].name = PDF /\ futures[i].state = "done"
          /\ llm_response.tool_calls[j].name = NEO4J /\ futures[j].state = "done"

\* C23: whenever the flag is set, the model client is set, tools holds the
\* three tools and tools_by_name has exactly their three names, all made by
\* the same initialization as the tool instances; after an initialization
\* that raised the flag is not set.
C23_InitializedImpliesComplete ==
    /\ initialized =>
          /\ model.id # 0
          /\ tools = << "fda_adverse_events_tool", "neo4j_query_tool", "pdf_search_tool" >>
          /\ tools_by_name.names =
                { "fda_adverse_events_tool", "neo4j_query_tool", "pdf_search_tool" }
          /\ tools_by_name.id = model.id
          /\ neo4j_tool.id = model.id /\ pdf_tool.id = model.id
    /\ (initInfo.ran /\ (initInfo.out.pdf_ctor_raises \/ initInfo.out.model_ctor_raises)) =>
          (~initialized /\ model = NoModel /\ tools = <<>> /\ tools_by_name = EmptyRegistry)

\* C23 witness: initialize_agent_with_config, called after a reset, raised in
\* the constructor of the model client.
C23_Witness ==
    /\ mode = "init" /\ pc = "done" /\ ret.kind = "raise"
    /\ initInfo.ran /\ initInfo.after_reset /\ initInfo.out.model_ctor_raises
    /\ neo4j_tool.id # 0 /\ pdf_tool.id # 0

\* C24: a second caller that read the flag as False at the gate and at the
\* guard runs every statement of the initialization body, whatever the first
\* caller has done meanwhile: each statement is enabled until the last, a
\* constructor statement replaces the instance that is there by one of the
\* second caller (tool instances, model client and registry), and when the
\* body is through the flag is set; the body is entered only by a caller
\* that read the flag as False.
C24_UnguardedInitialization ==
    /\ [](other.pc \in 2..(InitStatements + 1) => ENABLED OtherCallerStep)
    /\ [](other.pc = InitStatements + 2 => initialized)
    /\ [][ /\ (other.pc = 1 /\ other'.pc = 2) => ~initialized
           /\ (other.pc = 2 /\ other'.pc = 3) =>
                 (neo4j_tool'.id = nextId /\ nextId' = nextId + 1 /\ neo4j_tool'.id # neo4j_tool.id)
           /\ (other.pc = 3 /\ other'.pc = 4) =>
                 (pdf_tool'.id = other.id /\ ~pdf_tool'.vector_store)
           /\ (other.pc = 6 /\ other'.pc = 7) => (model'.id = other.id /\ model'.id # model.id)
           /\ (other.pc = 8 /\ other'.pc = 9) =>
                 (tools_by_name'.id = other.id /\ tools_by_name'.id # tools_by_name.id)
       ]_vars

\* C24 witness: both callers ran the body; the second one replaced the model
\* client and the registry of the first while the first caller's turn, which
\* had initialized the agent, was in its agent loop.
C24_Witness ==
    /\ mode = "turn" /\ pc = "call_tool"
    /\ other.pc = InitStatements + 2 /\ other.in_turn
    /\ other.id = 2 /\ nextId = 3
    /\ model.id = 2 /\ tools_by_name.id = 2

\* The results list of the response, empty when the key is missing.
ResultsOf(resp) == IF resp.results = <<>> THEN <<>> ELSE resp.results[1]

\* The reaction dicts of a result, none when a section is missing.
ReactionsOf(r) ==
    IF r.patient = <<>> THEN <<>>
    ELSE IF r.patient[1].reaction = <<>> THEN <<>> ELSE r.patient[1].reaction[1]

\* The drug dicts of a result, none when a section is missing.
DrugsOf(r) ==
    IF r.patient = <<>> THEN <<>>
    ELSE IF r.patient[1].drug = <<>> THEN <<>> ELSE r.patient[1].drug[1]

\* C22: get_adverse_events returns one record per entry of the results list,
\* in the order of the list, each with the five keys; receivedate,
\* safetyreportid, reaction name and reaction outcome are the entry's values,
\* "N/A" where the key is missing; reactions and outcomes have one element
\* per reaction of the entry; a missing patient, drug or reaction section
\* gives empty lists; a response without results gives the empty list.
C22_OneRecordPerResult ==
    fda_pc = "returned" =>
       /\ Len(useful_data) = Len(ResultsOf(response))
       /\ response.results = <<>> => useful_data = <<>>
       /\ \A i \in DOMAIN useful_data :
             LET rec == useful_data[i]
                 r == ResultsOf(response)[i]
             IN  /\ DOMAIN rec = {"receivedate", "safetyreportid", "drug_names", "reactions", "outcomes"}
                 /\ rec.receivedate = (IF r.receivedate = <<>> THEN "N/A" ELSE r.receivedate[1])
                 /\ rec.safetyreportid = (IF r.safetyreportid = <<>> THEN "N/A" ELSE r.safetyreportid[1])
                 /\ Len(rec.reactions) = Len(ReactionsOf(r))
                 /\ Len(rec.outcomes) = Len(ReactionsOf(r))
                 /\ \A j \in DOMAIN ReactionsOf(r) :
                       /\ rec.reactions[j] = (IF ReactionsOf(r)[j].reactionmeddrapt = <<>> THEN "N/A"
                                              ELSE ReactionsOf(r)[j].reactionmeddrapt[1])
                       /\ rec.outcomes[j] = (IF ReactionsOf(r)[j].reactionoutcome = <<>> THEN "N/A"
                                             ELSE ReactionsOf(r)[j].reactionoutcome[1])
                 /\ (r.patient = <<>> \/ r.patient[1].drug = <<>>) => rec.drug_names = <<>>
                 /\ (r.patient = <<>> \/ r.patient[1].reaction = <<>>) =>
                       (rec.reactions = <<>> /\ rec.outcomes = <<>>)

\* C22 witness: two records were returned for two entries, in their order,
\* the first for an entry without date and without patient.
C22_Witness ==
    /\ fda_pc = "returned"
    /\ Len(useful_data) = 2
    /\ useful_data[1].safetyreportid = "id-1" /\ useful_data[2].safetyreportid = "id-2"
    /\ useful_data[1].receivedate = "N/A"
    /\ useful_data[1].drug_names = <<>> /\ useful_data[1].reactions = <<>>

\* The product names that contain "tramadol" in some capitalisation.
IsTramadolProduct(name) == name \in { TRAMADOL, ApoTramadol }

\* The product names of a result, in its order ("N/A" for a drug without one).
ProductsOf(r) ==
    [j \in DOMAIN DrugsOf(r) |-> IF DrugsOf(r)[j].medicinalproduct = <<>> THEN NA
                                 ELSE DrugsOf(r)[j].medicinalproduct[1]]

\* C25: whatever drug name was asked for, the drug_names of a record are the
\* product names of its report that contain "tramadol" in any capitalisation,
\* in the report's order, and no other name; so for a query about another
\* drug they are empty unless the report lists a tramadol product.
C25_OnlyTramadolNames ==
    fda_pc = "returned" =>
       \A i \in DOMAIN useful_data :
          LET r == ResultsOf(response)[i]
          IN  /\ useful_data[i].drug_names = SelectSeq(ProductsOf(r), IsTramadolProduct)
              /\ drug_name # TRAMADOL =>
                    (useful_data[i].drug_names = <<>> <=>
                        ~\E j \in DOMAIN ProductsOf(r) : IsTramadolProduct(ProductsOf(r)[j]))

\* C25 witness: the query was about aspirin, the report lists aspirin and a
\* tramadol product written in mixed case, and the record names only the
\* tramadol product.
C25_Witness ==
    /\ fda_pc = "returned"
    /\ drug_name = ASPIRIN
    /\ Len(useful_data) = 1
    /\ ProductsOf(ResultsOf(response)[1]) = << ASPIRIN, ApoTramadol >>
    /\ useful_data[1].drug_names = << ApoTramadol >>

\* The roles of a list that alternates, starting with the user.
Alternates(msgs) ==
    \A i \in DOMAIN msgs : msgs[i].role = (IF i % 2 = 1 THEN "user" ELSE "assistant")

\* C26: between two script runs the message list alternates user and
\* assistant and ends with an assistant message, and during the stream it is
\* such a list with the user message of the prompt at its end; every key of
\* steps_history is the index of an assistant message of the list. A
\* submitted prompt appends its user message; the end of its stream, with a
\* final answer, with an error event or by an exception, appends one
\* assistant message, whose content is the content of the is_final event
\* when the stream ended without exception; nothing else appends, and a step
\* that empties the list empties steps_history.
C26_ChatAlternates ==
    /\ [](app_pc # "none" =>
            /\ Alternates(chat_messages)
            /\ Len(chat_messages) % 2 = (IF app_pc = "idle" THEN 0 ELSE 1)
            /\ \A k \in DOMAIN steps_history :
                  /\ k + 1 \in DOMAIN chat_messages
                  /\ chat_messages[k + 1].role = "assistant")
    /\ [][ /\ (app_pc = "idle" /\ app_pc' # "idle") =>
                 \E prompt \in Prompts :
                    chat_messages' = Append(chat_messages, ChatMessage("user", prompt))
           /\ (app_pc # "idle" /\ app_pc' # "idle") => chat_messages' = chat_messages
           /\ (app_pc # "idle" /\ app_pc' = "idle") =>
                 /\ Len(chat_messages') = Len(chat_messages) + 1
                 /\ SubSeq(chat_messages', 1, Len(chat_messages)) = chat_messages
                 /\ chat_messages'[Len(chat_messages')].role = "assistant"
                 /\ steps_history' # steps_history =>
                       /\ Len(SelectSeq(steps, IsFinal)) = 1
                       /\ chat_messages'[Len(chat_messages')].content = SelectSeq(steps, IsFinal)[1].content
                       /\ steps_history'[Len(chat_messages)] = steps
                 /\ steps_history' = steps_history =>
                       chat_messages'[Len(chat_messages')].content.prefix = "Sorry, I encountered an error: "
           /\ (app_pc = "idle" /\ app_pc' = "idle" /\ chat_messages' # chat_messages) =>
                 (chat_messages' = <<>> /\ steps_history' = NoStepsHistory)
       ]_vars

\* C26 witness: two prompts were answered, the first by a stream that ended
\* with an error event after a tool step, the second by an exception; the
\* steps of the first are stored under the index of its assistant message.
C26_Witness ==
    /\ app_pc = "idle"
    /\ Len(chat_messages) = 4
    /\ DOMAIN steps_history = {1}
    /\ Len(steps_history[1]) > 1
    /\ chat_messages[2].content.prefix = "Error running agent: "
    /\ chat_messages[4].content.prefix = "Sorry, I encountered an error: "

====
